---- MODULE Spec2Model ----
(***************************************************************************)
(* A model of dazel.py: one run of main(), from the workspace lookup to    *)
(* the exit code.  Python strings are sequences of one-character strings,  *)
(* so that split, strip, join, % formatting and the os.path functions are  *)
(* computed character by character as CPython computes them.               *)
(***************************************************************************)
EXTENDS Integers, Sequences, FiniteSets, TLC

\* ------------------------------------------------------------------ bounds
\* Deepest current working directory below "/" when the workspace lookup
\* is checked on its own.
MaxDepth == 3
\* Deepest current working directory below "/" in a whole run of main.
MainDepth == 1
\* Longest forwarded argument list (sys.argv[1:]).
MaxArgs == 2
\* Largest exit status an external process returns.
MaxRc == 2
\* Longest comma-separated string tried as a DAZEL_PORTS / DAZEL_ENV_VARS value.
MaxStrLen == 3

\* ------------------------------------------------- module-level constants
\* CODE_MOUNT_POINT = '/code'  (dazel.py:17)
CODE_MOUNT_POINT ==
    <<"/","c","o","d","e">>
\* CONTAINER_OUTPUT_BASE = '/root/.cache/bazel/_bazel_dazel'  (dazel.py:20)
CONTAINER_OUTPUT_BASE ==
    <<"/","r","o","o","t","/",".","c","a","c","h","e","/","b","a","z","e","l","/","_","b","a","z","e","l","_","d","a","z","e","l">>
\* BUILD_CONTAINER_NAME = 'dazel_build'  (dazel.py:22)
BUILD_CONTAINER_NAME ==
    <<"d","a","z","e","l","_","b","u","i","l","d">>
\* DAZEL_RC_FILENAME = '.dazelrc'  (dazel.py:27)
DAZEL_RC_FILENAME ==
    <<".","d","a","z","e","l","r","c">>
\* BAZEL_WORKSPACE_FILE = 'WORKSPACE'  (dazel.py:28)
BAZEL_WORKSPACE_FILE ==
    <<"W","O","R","K","S","P","A","C","E">>
\* DOCKER_COMPOSE_COMMAND = 'docker-compose'  (dazel.py:31)
DOCKER_COMPOSE_COMMAND ==
    <<"d","o","c","k","e","r","-","c","o","m","p","o","s","e">>
\* DOCKER_COMMAND = 'docker'  (dazel.py:32)
DOCKER_COMMAND ==
    <<"d","o","c","k","e","r">>
\* DOCKER_COMPOSE_PROJECT_NAME = 'dazel'  (dazel.py:33)
DOCKER_COMPOSE_PROJECT_NAME ==
    <<"d","a","z","e","l">>
\* CONTAINER_OUTPUT_USER_ROOT = '/var/bazel/workspace/_bazel_dazel'  (dazel.py:35)
CONTAINER_OUTPUT_USER_ROOT ==
    <<"/","v","a","r","/","b","a","z","e","l","/","w","o","r","k","s","p","a","c","e","/","_","b","a","z","e","l","_","d","a","z","e","l">>
\* CONTAINER_BAZEL_BIN = '/usr/bin/bazel'  (dazel.py:36)
CONTAINER_BAZEL_BIN ==
    <<"/","u","s","r","/","b","i","n","/","b","a","z","e","l">>
\* K_WORKSPACE_ROOT = 'DAZEL_WORKSPACE_ROOT'  (dazel.py:73)
K_WORKSPACE_ROOT ==
    <<"D","A","Z","E","L","_","W","O","R","K","S","P","A","C","E","_","R","O","O","T">>
\* K_PORTS = 'DAZEL_PORTS'  (dazel.py:74)
K_PORTS ==
    <<"D","A","Z","E","L","_","P","O","R","T","S">>
\* K_ENV_VARS = 'DAZEL_ENV_VARS'  (dazel.py:75)
K_ENV_VARS ==
    <<"D","A","Z","E","L","_","E","N","V","_","V","A","R","S">>
\* K_DOCKER_COMPOSE_FILE = 'DAZEL_DOCKER_COMPOSE_FILE'  (dazel.py:76)
K_DOCKER_COMPOSE_FILE ==
    <<"D","A","Z","E","L","_","D","O","C","K","E","R","_","C","O","M","P","O","S","E","_","F","I","L","E">>
\* K_BAZEL_RC_FILE = 'DAZEL_BAZEL_RC_FILE'  (dazel.py:78)
K_BAZEL_RC_FILE ==
    <<"D","A","Z","E","L","_","B","A","Z","E","L","_","R","C","_","F","I","L","E">>
\* K_DOCKER_RUN_PRIVILEGED = 'DAZEL_DOCKER_RUN_PRIVILEGED'  (dazel.py:79)
K_DOCKER_RUN_PRIVILEGED ==
    <<"D","A","Z","E","L","_","D","O","C","K","E","R","_","R","U","N","_","P","R","I","V","I","L","E","G","E","D">>
\* K_USER = 'DAZEL_USER'  (dazel.py:81)
K_USER ==
    <<"D","A","Z","E","L","_","U","S","E","R">>
\* K_BUILTINS = '__builtins__'  (dazel.py:192)
K_BUILTINS ==
    <<"_","_","b","u","i","l","t","i","n","s","_","_">>
\* K_TERM = 'TERM'  (dazel.py:91)
K_TERM ==
    <<"T","E","R","M">>
\* K_PATH = 'PATH'  (dazel.py:201)
K_PATH ==
    <<"P","A","T","H">>
\* DAZEL_PREFIX = 'DAZEL_'  (dazel.py:202)
DAZEL_PREFIX ==
    <<"D","A","Z","E","L","_">>
DEFAULT_PORTS ==
    [t |-> "list", s |-> <<>>, n |-> 0, items |-> <<>>]
DEFAULT_ENV_VARS ==
    [t |-> "list", s |-> <<>>, n |-> 0, items |-> <<>>]
DEFAULT_DOCKER_COMPOSE_FILE ==
    [t |-> "str", s |-> <<>>, n |-> 0, items |-> <<>>]
DEFAULT_USER ==
    [t |-> "str", s |-> <<>>, n |-> 0, items |-> <<>>]
DEFAULT_BAZEL_RC_FILE ==
    [t |-> "str", s |-> <<>>, n |-> 0, items |-> <<>>]
DEFAULT_DOCKER_RUN_PRIVILEGED ==
    [t |-> "bool", s |-> <<>>, n |-> 0, items |-> <<>>]

\* ---------------------------------------------------------- Python values
\* A Python object: t is its type, s the text of a str, n the number of an
\* int or bool (False = 0, True = 1), items the elements of a list.
PyNone == [t |-> "None", s |-> <<>>, n |-> 0, items |-> <<>>]
PyStr(str) == [t |-> "str", s |-> str, n |-> 0, items |-> <<>>]
PyInt(i) == [t |-> "int", s |-> <<>>, n |-> i, items |-> <<>>]
PyBool(b) == [t |-> "bool", s |-> <<>>, n |-> IF b THEN 1 ELSE 0, items |-> <<>>]
PyList(l) == [t |-> "list", s |-> <<>>, n |-> 0, items |-> l]
PyDict == [t |-> "dict", s |-> <<>>, n |-> 0, items |-> <<>>]

\* bool(v): None, "", [], 0 and False are falsy.
Truthy(v) ==
    CASE v.t = "None" -> FALSE
      [] v.t = "str" -> v.s # <<>>
      [] v.t = "list" -> v.items # <<>>
      [] v.t \in {"int", "bool"} -> v.n # 0
      [] OTHER -> TRUE

\* isinstance(v, str)
IsStr(v) == v.t = "str"

\* isinstance(v, collections.Iterable), in an interpreter that has the alias
\* (Python 3.3 to 3.9): str, list and dict are iterable, numbers and None not.
IsIterable(v) == v.t \in {"str", "list", "dict"}

Digits == <<"0", "1", "2", "3", "4", "5", "6", "7", "8", "9">>

\* "%s" % i for an int i >= 0
RECURSIVE IntToStr(_)
IntToStr(i) ==
    IF i < 10 THEN <<Digits[i + 1]>>
    ELSE IntToStr(i \div 10) \o <<Digits[(i % 10) + 1]>>

\* "%s" % v
ToStr(v) ==
    CASE v.t = "str" -> v.s
      [] v.t = "int" -> IntToStr(v.n)
      [] v.t = "bool" -> IF v.n = 1 THEN <<"T","r","u","e">> ELSE <<"F","a","l","s","e">>
      [] OTHER -> <<"N","o","n","e">>

\* s.startswith(p)
StartsWith(str, p) ==
    /\ Len(p) <= Len(str)
    /\ SubSeq(str, 1, Len(p)) = p

\* s.split(c) for a one-character separator c
RECURSIVE PySplit(_, _)
PySplit(str, c) ==
    IF \E i \in 1..Len(str) : str[i] = c
    THEN LET i == CHOOSE j \in 1..Len(str) :
                      /\ str[j] = c
                      /\ \A k \in 1..(j - 1) : str[k] # c
         IN  <<SubSeq(str, 1, i - 1)>> \o PySplit(SubSeq(str, i + 1, Len(str)), c)
    ELSE <<str>>

Whitespace == {" ", "\t", "\n", "\r"}

RECURSIVE LStrip(_)
LStrip(str) ==
    IF str # <<>> /\ Head(str) \in Whitespace THEN LStrip(Tail(str)) ELSE str

RECURSIVE RStrip(_)
RStrip(str) ==
    IF str # <<>> /\ str[Len(str)] \in Whitespace
    THEN RStrip(SubSeq(str, 1, Len(str) - 1))
    ELSE str

\* s.strip()
PyStrip(str) == RStrip(LStrip(str))

\* sep.join(strs), strs a sequence of texts
RECURSIVE PyJoin(_, _)
PyJoin(sep, strs) ==
    IF strs = <<>> THEN <<>>
    ELSE IF Len(strs) = 1 THEN strs[1]
    ELSE strs[1] \o sep \o PyJoin(sep, Tail(strs))

\* h.rstrip("/")
RECURSIVE RStripSlash(_)
RStripSlash(h) ==
    IF h # <<>> /\ h[Len(h)] = "/"
    THEN RStripSlash(SubSeq(h, 1, Len(h) - 1))
    ELSE h

\* os.path.dirname(p) (posixpath): the text up to the last "/", with its
\* trailing slashes removed unless it consists of slashes only.
Dirname(p) ==
    LET slashes == {j \in 1..Len(p) : p[j] = "/"}
        i == IF slashes = {} THEN 0
             ELSE CHOOSE j \in slashes : \A k \in slashes : k <= j
        head == SubSeq(p, 1, i)
    IN  IF head # <<>> /\ \E j \in 1..Len(head) : head[j] # "/"
        THEN RStripSlash(head)
        ELSE head

\* os.path.join(a, b) (posixpath)
PathJoin(a, b) ==
    IF StartsWith(b, <<"/">>) THEN b
    ELSE IF a = <<>> \/ a[Len(a)] = "/" THEN a \o b
    ELSE a \o <<"/">> \o b


\* ----------------------------------------------------------- dictionaries
\* A dict is a function from key texts to Python values.
EmptyDict == [k \in {} |-> PyNone]

\* d.get(k, default)
DictGet(d, k, default) == IF k \in DOMAIN d THEN d[k] ELSE default

\* Update with the precedence reversed: a binding a already has is kept.
UpdateKeepsExisting(a, b) ==
    [k \in (DOMAIN a) \cup (DOMAIN b) |-> IF k \in DOMAIN a THEN a[k] ELSE b[k]]

\* a.update(b): b's bindings replace a's, every other binding of a is kept.
Update(a, b) ==
    [k \in (DOMAIN a) \cup (DOMAIN b) |-> IF k \in DOMAIN b THEN b[k] ELSE a[k]]

\* ------------------------------------------------------------- exceptions
NoExc == [type |-> "", msg |-> <<>>]
RuntimeError(key) ==
    [type |-> "RuntimeError",
     msg |-> key \o <<" ","m","u","s","t"," ","b","e"," ","c","o","m","m","a","-","s","e","p","a","r","a","t","e","d"," ","s","t","r","i","n","g"," ","o","r"," ","p","y","t","h","o","n"," ","i","t","e","r","a","b","l","e"," ","o","f"," ","s","t","r","i","n","g","s">>]
\* str.join raises TypeError at the first element that is not a str.
JoinTypeError(l) ==
    LET i == CHOOSE j \in 1..Len(l) :
                 /\ l[j].t # "str"
                 /\ \A k \in 1..(j - 1) : l[k].t = "str"
    IN  [type |-> "TypeError",
         msg |-> <<"s","e","q","u","e","n","c","e"," ","i","t","e","m"," ">> \o IntToStr(i - 1)
                 \o <<":"," ","e","x","p","e","c","t","e","d"," ","s","t","r"," ","i","n","s","t","a","n","c","e",","," ">> \o <<l[i].t>> \o <<" ","f","o","u","n","d">>]

\* ------------------------------------------------ the argument normalizer
\* EntryList that strips the parts of a str on the left only.
EntryListLeftStripped(value) ==
    IF IsStr(value)
    THEN LET parts == PySplit(value.s, ",")
         IN  [i \in 1..Len(parts) |-> PyStr(LStrip(parts[i]))]
    ELSE value.items

\* The list bound to the local `ports` / `env_vars` when the fragment is
\* rendered: the stripped comma-separated parts of a str, else the elements.
EntryList(value) ==
    IF IsStr(value)
    THEN LET parts == PySplit(value.s, ",")
         IN  [i \in 1..Len(parts) |-> PyStr(PyStrip(parts[i]))]
    ELSE value.items

Texts(l) == [i \in 1..Len(l) |-> l[i].s]

\* AddPorts without the early return: an empty str or list is rendered too.
AddPortsWithoutEarlyReturn(ports) ==
    IF ~Truthy(ports) /\ ~IsStr(ports) /\ ports.t # "list"
    THEN [exc |-> NoExc, value |-> <<>>]
    ELSE IF ~IsStr(ports) /\ ~IsIterable(ports)
    THEN [exc |-> RuntimeError(K_PORTS), value |-> <<>>]
    ELSE IF \E i \in 1..Len(EntryList(ports)) : EntryList(ports)[i].t # "str"
    THEN [exc |-> JoinTypeError(EntryList(ports)), value |-> <<>>]
    ELSE [exc |-> NoExc,
          value |-> <<"-","p"," ","\"">>
                    \o PyJoin(<<"\""," ","-","p"," ","\"">>, Texts(EntryList(ports)))
                    \o <<"\"">>]

\* self._add_ports(ports): the exception raised, if any, and self.ports.
AddPorts(ports) ==
    IF ~Truthy(ports) THEN [exc |-> NoExc, value |-> <<>>]
    ELSE IF ~IsStr(ports) /\ ~IsIterable(ports)
    THEN [exc |-> RuntimeError(K_PORTS), value |-> <<>>]
    ELSE IF \E i \in 1..Len(EntryList(ports)) : EntryList(ports)[i].t # "str"
    THEN [exc |-> JoinTypeError(EntryList(ports)), value |-> <<>>]
    ELSE [exc |-> NoExc,
          value |-> <<"-","p"," ","\"">> \o PyJoin(<<"\""," ","-","p"," ","\"">>, Texts(EntryList(ports))) \o <<"\"">>]

\* AddEnvVars without the type check: a value that is neither a str nor
\* iterable is dropped instead of raising.
AddEnvVarsWithoutTypeCheck(env_vars) ==
    IF ~Truthy(env_vars) \/ (~IsStr(env_vars) /\ ~IsIterable(env_vars))
    THEN [exc |-> NoExc, value |-> <<>>]
    ELSE IF \E i \in 1..Len(EntryList(env_vars)) : EntryList(env_vars)[i].t # "str"
    THEN [exc |-> JoinTypeError(EntryList(env_vars)), value |-> <<>>]
    ELSE [exc |-> NoExc,
          value |-> <<"-","e"," ","\"">>
                    \o PyJoin(<<"\""," ","-","e"," ","\"">>, Texts(EntryList(env_vars)))
                    \o <<"\"">>]

\* self._add_env_vars(env_vars): the exception raised, if any, and self.env_vars.
AddEnvVars(env_vars) ==
    IF ~Truthy(env_vars) THEN [exc |-> NoExc, value |-> <<>>]
    ELSE IF ~IsStr(env_vars) /\ ~IsIterable(env_vars)
    THEN [exc |-> RuntimeError(K_ENV_VARS), value |-> <<>>]
    ELSE IF \E i \in 1..Len(EntryList(env_vars)) : EntryList(env_vars)[i].t # "str"
    THEN [exc |-> JoinTypeError(EntryList(env_vars)), value |-> <<>>]
    ELSE [exc |-> NoExc,
          value |-> <<"-","e"," ","\"">> \o PyJoin(<<"\""," ","-","e"," ","\"">>, Texts(EntryList(env_vars))) \o <<"\"">>]

\* ------------------------------------------------------ the configuration
\* os.environ.get(name, default)
EnvironGet(env, name, default) == IF name \in DOMAIN env THEN env[name] ELSE default

\* The dict comprehension of _config_from_environment.
ConfigFromEnvironment(env) ==
    [name \in {e \in DOMAIN env : StartsWith(e, DAZEL_PREFIX)} |-> PyStr(env[name])]

\* The dict _config_from_file starts from.
SeedConfig(dir) == [k \in {K_WORKSPACE_ROOT} |-> PyStr(dir)]

\* exec(source, config) of a source that runs to its end: the names it binds
\* are added to config, and exec itself adds __builtins__.
Exec(binds, config) ==
    Update(Update(config, [k \in {K_BUILTINS} |-> PyDict]), binds)

\* The object DockerInstance.__init__ builds once both fragments are rendered.
DockerInstance(workspace_root, ports, env_vars, docker_compose_file, bazel_rc_file, docker_run_privileged, user) ==
    [workspace_root |-> workspace_root,
     docker_compose_file |-> docker_compose_file,
     bazel_rc_file |-> bazel_rc_file,
     docker_run_privileged |-> docker_run_privileged,
     user |-> user,
     ports |-> AddPorts(ports).value,
     env_vars |-> AddEnvVars(env_vars).value]

\* The exception __init__ raises: _add_ports runs before _add_env_vars.
InitExc(ports, env_vars) ==
    IF AddPorts(ports).exc # NoExc THEN AddPorts(ports).exc
    ELSE AddEnvVars(env_vars).exc

\* The value of `di` before from_config has returned.
NoInstance ==
    [workspace_root |-> PyNone,
     docker_compose_file |-> PyNone,
     bazel_rc_file |-> PyNone,
     docker_run_privileged |-> PyNone,
     user |-> PyNone,
     ports |-> <<>>,
     env_vars |-> <<>>]

\* ---------------------------------------------------- the command lines
\* '"%s"' % '" "'.join(args)
QuotedArgs(args) == <<"\"">> \o PyJoin(<<"\"", " ", "\"">>, args) \o <<"\"">>

\* EnvVarsArg that passes the ports fragment along with the env fragment.
PortsAndEnvVarsArg(self) == self.ports \o <<" ">> \o self.env_vars

\* Line 92: the fifth %s is self.env_vars; self.ports is given to no %s.
EnvVarsArg(self) == self.env_vars

\* PrivilegedArg that asks for the value True instead of a truthy value.
PrivilegedArgOnlyIfTrue(self) ==
    IF self.docker_run_privileged = PyBool(TRUE)
    THEN <<"-","-","p","r","i","v","i","l","e","g","e","d">>
    ELSE <<>>

\* Line 94: "--privileged" if self.docker_run_privileged else ""
PrivilegedArg(self) ==
    IF Truthy(self.docker_run_privileged)
    THEN <<"-","-","p","r","i","v","i","l","e","g","e","d">>
    ELSE <<>>

\* The string send_command formats: fourteen %s, in the order of the source.
CommandLine(self, args, columns, lines, term, isatty) ==
    DOCKER_COMMAND
    \o <<" ","e","x","e","c"," ","-","i"," ","-","e"," ","C","O","L","U","M","N","S","=">> \o IntToStr(columns)
    \o <<" ","-","e"," ","L","I","N","E","S","=">> \o IntToStr(lines)
    \o <<" ","-","e"," ","T","E","R","M","=">> \o term
    \o <<" ","-","w"," ","/","c","o","d","e"," ">> \o EnvVarsArg(self)
    \o <<" ">> \o (IF isatty THEN <<"-","t">> ELSE <<>>)
    \o <<" ">> \o PrivilegedArg(self)
    \o <<" ">> \o (IF Truthy(self.user) THEN <<"-","-","u","s","e","r","=">> \o ToStr(self.user) ELSE <<>>)
    \o <<" ">> \o BUILD_CONTAINER_NAME
    \o <<" ">> \o CONTAINER_BAZEL_BIN
    \o <<" ">> \o (IF Truthy(self.bazel_rc_file)
                   THEN <<"-","-","b","a","z","e","l","r","c","=">> \o CODE_MOUNT_POINT \o <<"/">> \o ToStr(self.bazel_rc_file)
                   ELSE <<>>)
    \o <<" ">> \o <<"-","-","o","u","t","p","u","t","_","u","s","e","r","_","r","o","o","t","=">> \o CONTAINER_OUTPUT_USER_ROOT
    \o <<" ">> \o <<"-","-","o","u","t","p","u","t","_","b","a","s","e","=">> \o CONTAINER_OUTPUT_BASE
    \o <<" ">> \o QuotedArgs(args)

\* The command _command_exists runs.
WhichCommand(cmd) == <<"w","h","i","c","h"," ">> \o cmd \o <<" ",">","/","d","e","v","/","n","u","l","l"," ","2",">","&","1">>

\* The command _start_compose_services runs.
ComposeCommand(self) ==
    <<"C","O","M","P","O","S","E","_","P","R","O","J","E","C","T","_","N","A","M","E","=">> \o DOCKER_COMPOSE_PROJECT_NAME
    \o <<" ","d","o","c","k","e","r","-","c","o","m","p","o","s","e"," ","-","f"," ">> \o PathJoin(ToStr(self.workspace_root), ToStr(self.docker_compose_file))
    \o <<" ","u","p"," ","-","d"," ","-","-","r","e","m","o","v","e","-","o","r","p","h","a","n","s">>

\* os.WEXITSTATUS(status): bits 8..15 of the wait status.
WEXITSTATUS(status) == (status \div 256) % 256


\* ------------------------------------------------------------ the inputs
Root == <<"/">>

\* The absolute, symlink-free directories of depth at most d whose
\* components are taken from names.
RECURSIVE DirsUpTo(_, _)
DirsUpTo(d, names) ==
    IF d = 0 THEN {Root}
    ELSE DirsUpTo(d - 1, names)
         \cup {PathJoin(p, <<n>>) : p \in DirsUpTo(d - 1, names), n \in names}

\* dir and every directory above it, up to "/".
RECURSIVE AncestorsOrSelf(_)
AncestorsOrSelf(dir) ==
    IF dir = Root THEN {Root} ELSE {dir} \cup AncestorsOrSelf(Dirname(dir))

Bind(k, v) == [x \in {k} |-> v]

\* What the .dazelrc of the workspace directory is: no file, a source whose
\* evaluation raises, or a source that binds names.
NoFile == [exists |-> FALSE, exc |-> NoExc, binds |-> EmptyDict]
BadSource ==
    [exists |-> TRUE,
     exc |-> [type |-> "SyntaxError", msg |-> <<"i","n","v","a","l","i","d"," ","s","y","n","t","a","x"," ","(","<","s","t","r","i","n","g",">",","," ","l","i","n","e"," ","1",")">>],
     binds |-> EmptyDict]
Source(binds) == [exists |-> TRUE, exc |-> NoExc, binds |-> binds]

FilePorts ==
    {EmptyDict,
     Bind(K_PORTS, PyInt(0)),
     Bind(K_PORTS, PyInt(5)),
     Bind(K_PORTS, PyStr(<<"8", ",", " ", ",", "9">>)),
     Bind(K_PORTS, PyList(<<PyStr(<<" ", "8">>)>>)),
     Bind(K_ENV_VARS, PyBool(TRUE)),
     Bind(K_ENV_VARS, PyList(<<PyInt(8)>>)),
     Bind(K_ENV_VARS, PyStr(<<"A", ",", "B", " ">>))}
FilePrivileged ==
    {EmptyDict,
     Bind(K_DOCKER_RUN_PRIVILEGED, PyBool(FALSE)),
     Bind(K_DOCKER_RUN_PRIVILEGED, PyBool(TRUE))}
FileCompose ==
    {EmptyDict,
     Bind(K_DOCKER_COMPOSE_FILE, PyStr(<<"c",".","y","m","l">>))
       @@ Bind(K_USER, PyStr(<<"u">>)) @@ Bind(K_BAZEL_RC_FILE, PyStr(<<"r">>))}

Dazelrcs ==
    {NoFile, BadSource}
    \cup {Source(p @@ q @@ c) :
            p \in FilePorts, q \in FilePrivileged, c \in FileCompose}

EmptyEnv == [k \in {} |-> <<>>]
EnvBind(k, v) == [x \in {k} |-> v]
EnvPrivileged ==
    {EmptyEnv,
     EnvBind(K_DOCKER_RUN_PRIVILEGED, <<>>),
     EnvBind(K_DOCKER_RUN_PRIVILEGED, <<"f","a","l","s","e">>)}
EnvOther ==
    {EnvBind(K_PATH, <<"/","b","i","n">>),
     EnvBind(K_TERM, <<"x","t","e","r","m">>)
       @@ EnvBind(K_PORTS, <<"9">>) @@ EnvBind(K_WORKSPACE_ROOT, <<"/","w">>)}
Environs == {p @@ o : p \in EnvPrivileged, o \in EnvOther}

ArgTokens == {<<"b","u","i","l","d">>, <<"/","/","f","o","o",":","b","a","r">>}
ArgLists == UNION {[1..m -> ArgTokens] : m \in 0..MaxArgs}

\* shutil.get_terminal_size()
TermSizes == {[columns |-> 120, lines |-> 9]}

\* The values tried as DAZEL_PORTS and DAZEL_ENV_VARS of a .dazelrc when the
\* normalizer is checked on its own: None, numbers, booleans, every str of
\* at most MaxStrLen characters over StrAlphabet, and short lists.
StrAlphabet == {"8", ",", " "}
ListItems == {PyStr(<<"8">>), PyStr(<<" ", "8", " ">>), PyStr(<<>>), PyInt(8)}
RichValues ==
    {PyNone, PyInt(0), PyInt(5), PyBool(FALSE), PyBool(TRUE)}
    \cup {PyStr(x) : x \in UNION {[1..m -> StrAlphabet] : m \in 0..MaxStrLen}}
    \cup {PyList(l) : l \in UNION {[1..m -> ListItems] : m \in 0..2}}

\* ------------------------------------------------------------- the state
VARIABLES
    cwd,        \* os.getcwd(), already absolute and free of symlinks
    files,      \* the paths that exist in the file system
    environ,    \* os.environ
    pc,         \* where main is
    directory,  \* the local of _find_workspace_directory
    config,     \* the local of _config_from_file and from_config
    di,         \* the DockerInstance of main
    rc,         \* the local rc of main
    args,       \* the args of send_command
    term_size,  \* the term_size of send_command
    isatty,     \* what sys.stdout.isatty() answered in send_command
    command,    \* the command of send_command
    status,     \* the wait status os.system returned
    spawned,    \* the command lines handed to a shell so far, in order
    exc,        \* the exception that ended the run
    exitCode    \* the exit code of the process

vars ==
    <<cwd, files, environ, pc, directory, config, di, rc, args, term_size,
      isatty, command, status, spawned, exc, exitCode>>

InitWith(cwds, environs) ==
    /\ cwd \in cwds
    /\ files \in SUBSET {PathJoin(d, BAZEL_WORKSPACE_FILE) : d \in AncestorsOrSelf(cwd)}
    /\ environ \in environs
    /\ pc = "main"
    /\ directory = <<>>
    /\ config = EmptyDict
    /\ di = NoInstance
    /\ rc = 0
    /\ args = <<>>
    /\ term_size = [columns |-> 0, lines |-> 0]
    /\ isatty = FALSE
    /\ command = <<>>
    /\ status = 0
    /\ spawned = <<>>
    /\ exc = NoExc
    /\ exitCode = -1

Init == InitWith(DirsUpTo(MainDepth, {"a"}), Environs)

\* Line 212: directory = os.path.realpath(os.getcwd())
Getcwd ==
    /\ pc = "main"
    /\ directory' = cwd
    /\ pc' = "find"
    /\ UNCHANGED <<cwd, files, environ, config, di, rc, args, term_size, isatty, command, status, spawned, exc, exitCode>>

\* The condition of the while loop of _find_workspace_directory.
KeepWalking(dir) ==
    /\ dir # <<>>
    /\ dir # Root
    /\ PathJoin(dir, BAZEL_WORKSPACE_FILE) \notin files

\* One iteration of the loop: directory = os.path.dirname(directory)
FindStep ==
    /\ pc = "find"
    /\ KeepWalking(directory)
    /\ directory' = Dirname(directory)
    /\ UNCHANGED <<cwd, files, environ, pc, config, di, rc, args, term_size, isatty, command, status, spawned, exc, exitCode>>

\* The loop ends and _find_workspace_directory returns directory.
FindReturn ==
    /\ pc = "find"
    /\ ~KeepWalking(directory)
    /\ pc' = "file"
    /\ UNCHANGED <<cwd, files, environ, directory, config, di, rc, args, term_size, isatty, command, status, spawned, exc, exitCode>>

\* An exception nobody catches leaves main: the interpreter exits with 1.
Raise(e) ==
    /\ exc' = e
    /\ exitCode' = 1
    /\ pc' = "raised"

\* The rest of _config_from_file: the dict is seeded with the directory and
\* the .dazelrc in it, when there is one, is exec'ed into the dict.
ConfigFromFile ==
    /\ pc = "file"
    /\ \E dazelrc \in Dazelrcs :
         IF ~dazelrc.exists
         THEN /\ config' = SeedConfig(directory)
              /\ pc' = "env"
              /\ UNCHANGED <<exc, exitCode>>
         ELSE IF dazelrc.exc # NoExc
         THEN /\ Raise(dazelrc.exc)
              /\ config' = SeedConfig(directory)
         ELSE /\ config' = Exec(dazelrc.binds, SeedConfig(directory))
              /\ pc' = "env"
              /\ UNCHANGED <<exc, exitCode>>
    /\ UNCHANGED <<cwd, files, environ, directory, di, rc, args, term_size, isatty, command, status, spawned>>

\* Line 71: config.update(cls._config_from_environment())
MergeEnvironment ==
    /\ pc = "env"
    /\ config' = Update(config, ConfigFromEnvironment(environ))
    /\ pc' = "init"
    /\ UNCHANGED <<cwd, files, environ, directory, di, rc, args, term_size, isatty, command, status, spawned, exc, exitCode>>

\* Lines 72-82 and __init__: the instance is built from config.get of each key.
Construct ==
    /\ pc = "init"
    /\ LET ports == DictGet(config, K_PORTS, DEFAULT_PORTS)
           env_vars == DictGet(config, K_ENV_VARS, DEFAULT_ENV_VARS)
       IN  IF InitExc(ports, env_vars) # NoExc
           THEN /\ Raise(InitExc(ports, env_vars))
                /\ UNCHANGED di
           ELSE /\ di' = DockerInstance(
                           DictGet(config, K_WORKSPACE_ROOT, PyNone),
                           ports,
                           env_vars,
                           DictGet(config, K_DOCKER_COMPOSE_FILE, DEFAULT_DOCKER_COMPOSE_FILE),
                           DictGet(config, K_BAZEL_RC_FILE, DEFAULT_BAZEL_RC_FILE),
                           DictGet(config, K_DOCKER_RUN_PRIVILEGED, DEFAULT_DOCKER_RUN_PRIVILEGED),
                           DictGet(config, K_USER, DEFAULT_USER))
                /\ pc' = "start"
                /\ UNCHANGED <<exc, exitCode>>
    /\ UNCHANGED <<cwd, files, environ, directory, config, rc, args, term_size, isatty, command, status, spawned>>

\* rc = di.start(): `which docker-compose` is run first; only when it finds
\* the executable does _start_compose_services look at the compose file.
Start ==
    /\ pc = "start"
    /\ \E which_rc \in 0..1 :
         LET checked == Append(spawned, WhichCommand(DOCKER_COMPOSE_COMMAND))
         IN  IF which_rc # 0
             THEN /\ rc' = 1
                  /\ spawned' = checked
             ELSE IF ~Truthy(di.docker_compose_file)
             THEN /\ rc' = 0
                  /\ spawned' = checked
             ELSE \E compose_rc \in 0..MaxRc :
                    /\ rc' = compose_rc
                    /\ spawned' = Append(checked, ComposeCommand(di))
    /\ pc' = "send"
    /\ UNCHANGED <<cwd, files, environ, directory, config, di, args, term_size, isatty, command, status, exc, exitCode>>

\* return di.send_command(sys.argv[1:]), and sys.exit of what it returns.
SendCommand ==
    /\ pc = "send"
    /\ \E argv \in ArgLists, size \in TermSizes, tty \in BOOLEAN, exec_rc \in 0..MaxRc :
         /\ args' = argv
         /\ term_size' = size
         /\ isatty' = tty
         /\ command' = CommandLine(di, argv, size.columns, size.lines,
                                   EnvironGet(environ, K_TERM, <<>>),
                                   tty)
         /\ spawned' = Append(spawned, command')
         /\ status' = exec_rc * 256
         /\ exitCode' = WEXITSTATUS(status')
    /\ pc' = "done"
    /\ UNCHANGED <<cwd, files, environ, directory, config, di, rc, exc>>

Next ==
    \/ Getcwd
    \/ FindStep
    \/ FindReturn
    \/ ConfigFromFile
    \/ MergeEnvironment
    \/ Construct
    \/ Start
    \/ SendCommand

Spec == Init /\ [][Next]_vars


\* ============================================================== the claims

\* str contains sub as a contiguous substring
Contains(str, sub) ==
    \E i \in 1..(Len(str) - Len(sub) + 1) : \A j \in 1..Len(sub) : str[i + j - 1] = sub[j]

\* str ends with suffix
EndsWith(str, suffix) ==
    /\ Len(suffix) <= Len(str)
    /\ SubSeq(str, Len(str) - Len(suffix) + 1, Len(str)) = suffix

\* ---------------------------------------------------------------------- C1
\* C1: when main has finished, the exit code of the process is the status
\* start() returned if that is not zero (1 when docker-compose was not found,
\* else the exit status of docker-compose) and otherwise the exit status of
\* the forwarded command.
C1_ExitCodeSurfacesStartFailure ==
    pc = "done" => exitCode = (IF rc # 0 THEN rc ELSE WEXITSTATUS(status))

\* ---------------------------------------------------------------------- C2
\* C2: when start() has returned for an instance whose compose file is empty,
\* it has returned 0 and no external process has been spawned.
C2_StartIsNoOpWithoutComposeFile ==
    (pc = "send" /\ ~Truthy(di.docker_compose_file)) => (rc = 0 /\ spawned = <<>>)

\* ---------------------------------------------------------------------- C4
\* The directories from cwd up to "/" that hold the marker file.
Marked == {d \in AncestorsOrSelf(cwd) : PathJoin(d, BAZEL_WORKSPACE_FILE) \in files}

\* C4: when _find_workspace_directory has returned, its result is the deepest
\* directory from cwd up to "/" that holds WORKSPACE, and the empty string
\* when none of them does.
C4_LocatorReturnsNearestOrEmpty ==
    pc = "file" =>
        directory = (IF Marked = {} THEN <<>>
                     ELSE CHOOSE d \in Marked : \A e \in Marked : Len(e) <= Len(d))

\* ---------------------------------------------------------------------- C5
\* One double-quoted token per argument, each after a single space.
RECURSIVE ForwardedTokens(_)
ForwardedTokens(l) ==
    IF l = <<>> THEN <<>>
    ELSE <<" ", "\"">> \o Head(l) \o <<"\"">> \o ForwardedTokens(Tail(l))

\* C5: the command line send_command builds ends with the --output_base flag
\* followed by exactly one quoted token per argument, in the order of args,
\* and by nothing else.
C5_OneQuotedTokenPerArgument ==
    pc = "done" =>
        EndsWith(command,
                 <<"-","-","o","u","t","p","u","t","_","b","a","s","e","=">>
                 \o CONTAINER_OUTPUT_BASE \o ForwardedTokens(args))


\* ------------------------------------------- the workspace lookup on its own
InitLocator == InitWith(DirsUpTo(MaxDepth, {"a", "b"}), {EmptyEnv})

NextLocator ==
    \/ Getcwd
    \/ FindStep
    \/ FindReturn

SpecLocator == InitLocator /\ [][NextLocator]_vars

\* ------------------------------------------------ the normalizer on its own
\* from_config about to build the instance, in "/" with no marker, from a
\* /.dazelrc that binds DAZEL_PORTS and DAZEL_ENV_VARS and an environment
\* with no DAZEL_ variable.
InitRender ==
    /\ cwd = Root
    /\ files = {}
    /\ environ = EmptyEnv
    /\ pc = "init"
    /\ directory = Root
    /\ \E p \in RichValues, e \in RichValues :
         config = Exec(Bind(K_PORTS, p) @@ Bind(K_ENV_VARS, e), SeedConfig(Root))
    /\ di = NoInstance
    /\ rc = 0
    /\ args = <<>>
    /\ term_size = [columns |-> 0, lines |-> 0]
    /\ isatty = FALSE
    /\ command = <<>>
    /\ status = 0
    /\ spawned = <<>>
    /\ exc = NoExc
    /\ exitCode = -1

NextRender == Construct

SpecRender == InitRender /\ [][NextRender]_vars

\* ---------------------------------------------------------------------- C3
\* C3: the step that merges the environment into the file's configuration
\* leaves a dict whose keys are the file's keys and the DAZEL_ names of the
\* environment, that binds each of those names to the environment's text,
\* and binds every other key to what the file bound it to.
C3_EnvironmentOverridesFile ==
    [][pc = "env" =>
         LET envKeys == {e \in DOMAIN environ : StartsWith(e, DAZEL_PREFIX)}
         IN  /\ DOMAIN config' = (DOMAIN config) \cup envKeys
             /\ \A k \in envKeys : config'[k] = PyStr(environ[k])
             /\ \A k \in (DOMAIN config) \ envKeys : config'[k] = config[k]]_vars

\* The merge has replaced the workspace root the file source seeded, kept
\* the file-only key __builtins__ and left out the environment's TERM.
C3_Witness ==
    /\ pc = "init"
    /\ K_WORKSPACE_ROOT \in DOMAIN environ
    /\ environ[K_WORKSPACE_ROOT] # directory
    /\ config[K_WORKSPACE_ROOT] = PyStr(environ[K_WORKSPACE_ROOT])
    /\ K_BUILTINS \in DOMAIN config
    /\ K_TERM \in DOMAIN environ
    /\ K_TERM \notin DOMAIN config

\* ---------------------------------------------------------------------- C6
\* The reference rendering, computed otherwise than the code computes it:
\* the k-th entry of a str lies between its (k-1)-th and its k-th comma.
Commas(str) == {i \in 1..Len(str) : str[i] = ","}
NthComma(str, k) ==
    IF k = 0 THEN 0
    ELSE IF k > Cardinality(Commas(str)) THEN Len(str) + 1
    ELSE CHOOSE i \in Commas(str) : Cardinality({j \in Commas(str) : j <= i}) = k
\* e without the whitespace before its first and after its last other character.
RefTrim(e) ==
    LET solid == {i \in 1..Len(e) : e[i] \notin Whitespace}
    IN  IF solid = {} THEN <<>>
        ELSE SubSeq(e, CHOOSE i \in solid : \A j \in solid : i <= j,
                       CHOOSE i \in solid : \A j \in solid : j <= i)
RefEntries(v) ==
    IF v.t = "str"
    THEN [k \in 1..(Cardinality(Commas(v.s)) + 1) |->
            RefTrim(SubSeq(v.s, NthComma(v.s, k - 1) + 1, NthComma(v.s, k) - 1))]
    ELSE [k \in 1..Len(v.items) |-> v.items[k].s]
RECURSIVE RefTokens(_, _)
RefTokens(flag, entries) ==
    IF entries = <<>> THEN <<>>
    ELSE <<"-", flag, " ", "\"">> \o Head(entries) \o <<"\"">>
         \o (IF Len(entries) = 1 THEN <<>> ELSE <<" ">> \o RefTokens(flag, Tail(entries)))
RefFragment(flag, v) ==
    IF v.t = "None" \/ (v.t = "str" /\ v.s = <<>>) \/ (v.t = "list" /\ v.items = <<>>)
    THEN <<>>
    ELSE RefTokens(flag, RefEntries(v))

PortsValue == DictGet(config, K_PORTS, DEFAULT_PORTS)
EnvVarsValue == DictGet(config, K_ENV_VARS, DEFAULT_ENV_VARS)
Constructed == pc \in {"start", "send", "done"}

\* C6: once the instance is built from a ports value and an env-vars value
\* that are None, a str or a list, self.ports and self.env_vars are the
\* reference rendering of them: nothing for None, "" and [], else one
\* -p "<entry>" (-e "<entry>") per entry, separated by single spaces, in order,
\* the entries of a str trimmed and kept when empty, those of a list as given.
C6_FragmentsAreTheReferenceRendering ==
    Constructed =>
        /\ PortsValue.t \in {"None", "str", "list"} => di.ports = RefFragment("p", PortsValue)
        /\ EnvVarsValue.t \in {"None", "str", "list"} => di.env_vars = RefFragment("e", EnvVarsValue)

\* Built from a str with a padded and an empty entry, and from a two-element list.
C6_Witness ==
    /\ pc = "start"
    /\ PortsValue = PyStr(<<"8", ",", " ">>)
    /\ di.ports = <<"-","p"," ","\"","8","\""," ","-","p"," ","\"","\"">>
    /\ EnvVarsValue.t = "list"
    /\ Len(EnvVarsValue.items) = 2
    /\ di.env_vars # <<>>

\* ---------------------------------------------------------------------- C7
\* Neither a str nor a collection of strs (None and the empty cases aside).
BadShape(v) ==
    \/ v.t \in {"int", "bool"}
    \/ v.t = "list" /\ \E i \in 1..Len(v.items) : v.items[i].t # "str"
\* A number other than 0, or True.
TruthyScalar(v) == v.t \in {"int", "bool"} /\ Truthy(v)
\* config holds the merged configuration.
Merged == pc \notin {"main", "find", "file", "env"} /\ exc.type # "SyntaxError"

Entries(v) == IF Truthy(v) THEN EntryList(v) ELSE <<>>
Trimmed(str) == str = <<>> \/ (str[1] \notin Whitespace /\ str[Len(str)] \notin Whitespace)

\* C8 as claimed: every entry rendered into self.ports and self.env_vars is a
\* non-empty text without leading or trailing whitespace, and the two fields
\* are still what the constructor rendered.
C8_EntriesNonEmptyAndTrimmed ==
    Constructed =>
        /\ \A v \in {PortsValue, EnvVarsValue} : \A i \in 1..Len(Entries(v)) :
               Entries(v)[i].s # <<>> /\ Trimmed(Entries(v)[i].s)
        /\ di.ports = AddPorts(PortsValue).value
        /\ di.env_vars = AddEnvVars(EnvVarsValue).value

\* C8 as amended: every entry taken from a comma-separated str has no leading
\* or trailing whitespace (it may be empty), the entries of a list are its
\* elements as given, and start() and send_command() leave the instance as
\* the constructor built it.
C8_StrEntriesTrimmedAndFieldsKept ==
    /\ [](Constructed =>
            \A v \in {PortsValue, EnvVarsValue} :
                /\ v.t = "str" => \A i \in 1..Len(Entries(v)) : Trimmed(Entries(v)[i].s)
                /\ v.t = "list" => Entries(v) = v.items)
    /\ [][(pc \in {"start", "send"}) => (di' = di)]_vars

\* send_command has run on an instance whose ports came from "8, ,9": the
\* middle entry is empty, and from the list [" 8"] nothing would be trimmed.
C8_Witness ==
    /\ pc = "done"
    /\ PortsValue = PyStr(<<"8", ",", " ", ",", "9">>)
    /\ Entries(PortsValue)[2].s = <<>>
    /\ di.ports = <<"-","p"," ","\"","8","\""," ","-","p"," ","\"","\""," ","-","p"," ","\"","9","\"">>

HasPrivilegedFlag ==
    Contains(command, <<" ","-","-","p","r","i","v","i","l","e","g","e","d"," ">>)

\* C10: the command line holds --privileged exactly when the merged
\* DAZEL_DOCKER_RUN_PRIVILEGED is truthy; when the environment sets it, that is
\* exactly when the environment's text is not empty.
C10_PrivilegedIffMergedValueTruthy ==
    pc = "done" =>
        /\ HasPrivilegedFlag <=>
             Truthy(DictGet(config, K_DOCKER_RUN_PRIVILEGED, DEFAULT_DOCKER_RUN_PRIVILEGED))
        /\ K_DOCKER_RUN_PRIVILEGED \in DOMAIN environ =>
             (HasPrivilegedFlag <=> environ[K_DOCKER_RUN_PRIVILEGED] # <<>>)

\* The environment says "false" and the command runs privileged.
C10_Witness ==
    /\ pc = "done"
    /\ K_DOCKER_RUN_PRIVILEGED \in DOMAIN environ
    /\ environ[K_DOCKER_RUN_PRIVILEGED] = <<"f","a","l","s","e">>
    /\ HasPrivilegedFlag

====
